---- MODULE Spec2Model ----
(***************************************************************************)
(* The rippletalks backend: the four share-link handlers of                *)
(* controllers/linkController.ts, the company handlers over                *)
(* services/companyService.ts and the user management of                   *)
(* controllers/adminController.ts, the session handlers of                 *)
(* controllers/authController.ts, over the tables, constraints and view    *)
(* of database/schema.sql and the row-level policies of                    *)
(* database/rls-policies.sql.                                              *)
(*                                                                         *)
(* The store starts with one document, d1 of user u1, and no links; with   *)
(* the users u1 and u3 of company c1 and u2 of company c2; and with one    *)
(* companies row, c1 of owner u1.  Each user has a browser whose cookie    *)
(* jar starts empty.                                                       *)
(*                                                                         *)
(* Two store clients exist: supabaseAdmin (service role, bypasses          *)
(* row-level security) and supabase (anon key, subject to row-level        *)
(* security).  Timestamps are positive integers; 0 stands for SQL NULL in  *)
(* a timestamp column.  The columns created_at and updated_at, which no    *)
(* handler reads, are left out of the rows.  The `error` results modelled are the ones the      *)
(* store produces deterministically: constraint violations, policy         *)
(* denials and the zero-row result of .single().                           *)
(***************************************************************************)
EXTENDS Integers, FiniteSets

(* ---------------- bounds ---------------- *)
MaxTime == 2
MaxLinks == 2
MaxLogs == 2
MaxViews == 4
MaxCompanies == 2

(* ---------------- value sets ---------------- *)
Users == {"u1", "u2"}
NoUser == "none"
UserIds == Users \cup {"u3"}
DocIds == {"d1"}
LinkIds == {"a", "b"}
Viewers == {"v1", "v2"}
Null == "null"
Undefined == "undefined"

\* the n-th id that gen_random_uuid() gives to a companies row
CompanyIdOf(n) == <<"c1", "c2", "c3", "c4", "c5">>[n]
NoTime == 0
Times == 1..MaxTime

VARIABLES now, rlsApplied, documents, share_links, share_link_logs,
          linkSeq, logSeq, logReq, resp, issued, logged, revoked, logCap,
          users, authUsers, companies, companySeq, cookies

vars == <<now, rlsApplied, documents, share_links, share_link_logs,
          linkSeq, logSeq, logReq, resp, issued, logged, revoked, logCap,
          users, authUsers, companies, companySeq, cookies>>

store == <<documents, share_links, share_link_logs, linkSeq, logSeq>>
ghost == <<issued, logged, revoked>>

\* the users table, the accounts of the identity provider (Supabase Auth),
\* the companies table with its id sequence, and the cookies each user's
\* browser holds
accounts == <<users, authUsers, companies, companySeq, cookies>>

\* a log request: its position in the handler, the inputs it came with
\* (body ipAddress and userAgent, req.ip, the x-forwarded-for and user-agent
\* headers) and the clientIp and clientUserAgent resolved from them
NoReq == [state |-> "idle", linkId |-> "", ip |-> "", ua |-> "",
          ipAddress |-> "", userAgent |-> "", reqIp |-> "",
          forwardedFor |-> "", uaHeader |-> ""]
NoResp == [op |-> "none", arg |-> "", status |-> 0, body |-> [none |-> TRUE]]

(* ---------------- the store ---------------- *)

\* rows of share_links with the given link_id
LinksById(linkId) == {r \in share_links : r.link_id = linkId}

\* the join made on the document instead of the link: the log rows of every
\* link of the same document
LogsOf_perDocument(linkId) ==
  {g \in share_link_logs :
     \E r1 \in share_links, r2 \in share_links :
        /\ r1.link_id = linkId /\ r2.link_id = g.link_id
        /\ r1.document_id = r2.document_id}

\* rows of share_link_logs with the given link_id
LogsOf(linkId) == {g \in share_link_logs : g.link_id = linkId}

\* documents(id) primary key lookup
DocExists(documentId) == \E d \in documents : d.id = documentId

\* users(id) primary key lookup
UserExists(userId) == \E u \in users : u.id = userId

\* auth.uid() of a request made with the anon key and no user session
AnonUid == Null

\* USING clause of "Users can view own document links"
PolicyViewOwnDocumentLinks(row, uid) ==
  row.document_id \in {d.id : d \in {x \in documents : x.owner_id = uid}}

\* SELECT on share_links as seen through a client
SelectShareLinks(linkId, bypassRls, uid) ==
  {r \in LinksById(linkId) :
     bypassRls \/ ~rlsApplied \/ PolicyViewOwnDocumentLinks(r, uid)}

\* USING clause of "Document owners can view link logs"
PolicyOwnersViewLinkLogs(linkId, uid) ==
  \E r \in share_links : \E d \in documents :
     r.link_id = linkId /\ d.id = r.document_id /\ d.owner_id = uid

\* COUNT(DISTINCT sll.ip_address) in place of COUNT(sll.id)
ViewCount_distinctIp(linkId) ==
  Cardinality({g.ip_address : g \in LogsOf(linkId)})

\* COUNT(sll.id) as view_count
ViewCount(linkId) == Cardinality(LogsOf(linkId))

Max(S) == CHOOSE x \in S : \A y \in S : y <= x

\* JOIN in place of LEFT JOIN: no row for a link without log rows
share_link_stats_innerJoin ==
  {[link_id |-> r.link_id, document_id |-> r.document_id,
    expires_at |-> r.expires_at,
    created_by |-> r.created_by,
    view_count |-> ViewCount(r.link_id),
    last_opened |-> Max({g.timestamp : g \in LogsOf(r.link_id)}),
    unique_viewers |-> Cardinality({g.ip_address : g \in LogsOf(r.link_id)}
                                   \ {Null})] :
     r \in {x \in share_links : LogsOf(x.link_id) # {}}}

\* COUNT(sll.ip_address) in place of COUNT(DISTINCT sll.ip_address)
share_link_stats_countAll ==
  {[link_id |-> r.link_id, document_id |-> r.document_id,
    expires_at |-> r.expires_at,
    created_by |-> r.created_by,
    view_count |-> ViewCount(r.link_id),
    last_opened |-> IF LogsOf(r.link_id) = {} THEN NoTime
                    ELSE Max({g.timestamp : g \in LogsOf(r.link_id)}),
    unique_viewers |-> Cardinality({g \in LogsOf(r.link_id) :
                                      g.ip_address # Null})] : r \in share_links}

\* the share_link_stats view: one row per share_links row, aggregated over
\* the LEFT JOIN with share_link_logs
share_link_stats ==
  {[link_id |-> r.link_id, document_id |-> r.document_id,
    expires_at |-> r.expires_at,
    created_by |-> r.created_by,
    view_count |-> ViewCount(r.link_id),
    last_opened |-> IF LogsOf(r.link_id) = {} THEN NoTime
                    ELSE Max({g.timestamp : g \in LogsOf(r.link_id)}),
    unique_viewers |-> Cardinality({g.ip_address : g \in LogsOf(r.link_id)}
                                   \ {Null})] : r \in share_links}

(* ---------------- pure helpers of the handlers ---------------- *)

\* the expiry test left out
IsExpired_never(row, t) == FALSE

\* shareLink.expires_at && new Date(shareLink.expires_at) < new Date()
IsExpired(row, t) == row.expires_at # NoTime /\ row.expires_at < t

\* the forwarded header consulted before req.ip
ClientIp_forwardedFirst(ipAddress, reqIp, forwardedFor) ==
  IF ipAddress # "" THEN ipAddress
  ELSE IF forwardedFor # "" THEN forwardedFor
  ELSE IF reqIp # "" THEN reqIp
  ELSE "unknown"

\* ipAddress || req.ip || forwardedFor || 'unknown'
ClientIp(ipAddress, reqIp, forwardedFor) ==
  IF ipAddress # "" THEN ipAddress
  ELSE IF reqIp # "" THEN reqIp
  ELSE IF forwardedFor # "" THEN forwardedFor
  ELSE "unknown"

\* userAgent || req.headers['user-agent'] || 'unknown'
ClientUserAgent(userAgent, header) ==
  IF userAgent # "" THEN userAgent
  ELSE IF header # "" THEN header
  ELSE "unknown"

(* ---------------- initial state ---------------- *)
Boot ==
  /\ now = 1
  /\ rlsApplied = FALSE
  /\ documents = {[id |-> "d1", owner_id |-> "u1"]}
  /\ share_links = {}
  /\ share_link_logs = {}
  /\ linkSeq = 0
  /\ logSeq = 0
  /\ logReq = [v \in Viewers |-> NoReq]
  /\ resp = NoResp
  /\ issued = [l \in LinkIds |-> 0]
  /\ logged = [l \in LinkIds |-> 0]
  /\ revoked = {}
  /\ users = {[id |-> "u1", email |-> "u1@acme", company_id |-> "c1",
               role |-> "admin"],
              [id |-> "u2", email |-> "u2@bolt", company_id |-> "c2",
               role |-> "admin"],
              [id |-> "u3", email |-> "u3@acme", company_id |-> "c1",
               role |-> "user"]}
  /\ authUsers = UserIds
  /\ companies = {[id |-> "c1", name |-> "Acme", logo_url |-> Null,
                   owner_user_id |-> "u1"]}
  /\ companySeq = 1
  /\ cookies = [u \in UserIds |-> {}]

\* logCap is the number of log rows a run writes at most
Init == Boot /\ logCap = MaxLogs

(* ---------------- /companies ---------------- *)

\* the link subsystem, which no company or admin handler touches
links == <<now, rlsApplied, store, logReq, ghost, logCap>>

\* String.prototype.trim on the names that occur
Trim(name) ==
  IF name = " " THEN ""
  ELSE IF name = " Zed " THEN "Zed"
  ELSE name

\* authenticateUser: the token is verified with the identity provider
Authenticated(user) == user # NoUser /\ user \in authUsers

Unauthorized(op) ==
  [op |-> op, arg |-> "", status |-> 401,
   body |-> [error |-> "Missing or invalid authorization"]]

\* .eq('id', companyId) alone: the ownership filter left out
OwnedCompany_anyOwner(companyId, ownerUserId) ==
  {c \in companies : c.id = companyId}

\* .eq('id', companyId).eq('owner_user_id', ownerUserId)
OwnedCompany(companyId, ownerUserId) ==
  {c \in companies : c.id = companyId /\ c.owner_user_id = ownerUserId}

\* GET /companies: getCompaniesByOwner
getCompanies(user) ==
  /\ resp = NoResp
  /\ resp' = IF ~Authenticated(user) THEN Unauthorized("getCompanies")
             ELSE LET data == {c \in companies : c.owner_user_id = user} IN
               [op |-> "getCompanies", arg |-> "", status |-> 200,
                body |-> [data |-> data, count |-> Cardinality(data)]]
  /\ UNCHANGED <<links, accounts>>

\* POST /companies
createCompany(user, name, logo_url) ==
  /\ resp = NoResp
  /\ IF ~Authenticated(user) THEN
       /\ resp' = Unauthorized("createCompany")
       /\ UNCHANGED <<companies, companySeq>>
     ELSE IF name = "" \/ Trim(name) = "" THEN
       /\ resp' = [op |-> "createCompany", arg |-> "", status |-> 400,
                   body |-> [error |-> "Validation failed",
                             details |-> "Company name is required"]]
       /\ UNCHANGED <<companies, companySeq>>
     ELSE
       /\ companySeq < MaxCompanies
       /\ LET row == [id |-> CompanyIdOf(companySeq + 1), name |-> Trim(name),
                      logo_url |-> IF logo_url \in {Undefined, ""}
                                     THEN Null ELSE logo_url,
                      owner_user_id |-> user] IN
          /\ companies' = companies \cup {row}
          /\ resp' = [op |-> "createCompany", arg |-> "", status |-> 201,
                      body |-> [data |-> row,
                                message |-> "Company created successfully"]]
       /\ companySeq' = companySeq + 1
  /\ UNCHANGED <<links, cookies, users, authUsers>>

\* the response of GET /companies/:id
GetCompanyResponse(user, id) ==
  IF ~Authenticated(user) THEN Unauthorized("getCompanyById")
  ELSE IF OwnedCompany(id, user) = {} THEN
    [op |-> "getCompanyById", arg |-> id, status |-> 404,
     body |-> [error |-> "Company not found or access denied"]]
  ELSE
    [op |-> "getCompanyById", arg |-> id, status |-> 200,
     body |-> [data |-> CHOOSE c \in OwnedCompany(id, user) : TRUE]]

getCompanyById(user, id) ==
  /\ resp = NoResp
  /\ resp' = GetCompanyResponse(user, id)
  /\ UNCHANGED <<links, accounts>>

\* { ...(updates.name && { name }), ...(updates.logo_url !== undefined &&
\* { logo_url }) } applied to a row
Updated(row, name, logo_url) ==
  [row EXCEPT !.name = IF name # "" THEN name ELSE @,
              !.logo_url = IF logo_url # Undefined THEN logo_url ELSE @]

\* the response of PATCH /companies/:id; zero rows make .single() fail and
\* the service throw
UpdateCompanyResponse(user, id, name, logo_url) ==
  IF ~Authenticated(user) THEN Unauthorized("updateCompany")
  ELSE IF name = "" /\ logo_url = Undefined THEN
    [op |-> "updateCompany", arg |-> id, status |-> 400,
     body |-> [error |-> "Validation failed",
               details |-> "At least one field (name or logo_url) must be provided"]]
  ELSE IF OwnedCompany(id, user) = {} THEN
    [op |-> "updateCompany", arg |-> id, status |-> 500,
     body |-> [error |-> "Failed to update company",
               details |-> "Failed to update company: no rows returned"]]
  ELSE
    [op |-> "updateCompany", arg |-> id, status |-> 200,
     body |-> [data |-> Updated(CHOOSE c \in OwnedCompany(id, user) : TRUE,
                               name, logo_url),
               message |-> "Company updated successfully"]]

updateCompany(user, id, name, logo_url) ==
  /\ resp = NoResp
  /\ resp' = UpdateCompanyResponse(user, id, name, logo_url)
  /\ companies' =
       IF Authenticated(user) /\ ~(name = "" /\ logo_url = Undefined)
         THEN (companies \ OwnedCompany(id, user)) \cup
              {Updated(c, name, logo_url) : c \in OwnedCompany(id, user)}
         ELSE companies
  /\ UNCHANGED <<links, cookies, users, authUsers, companySeq>>

\* the response of DELETE /companies/:id; the delete reports no error when
\* it matches no row
DeleteCompanyResponse(user, id) ==
  IF ~Authenticated(user) THEN Unauthorized("deleteCompany")
  ELSE [op |-> "deleteCompany", arg |-> id, status |-> 200,
        body |-> [message |-> "Company deleted successfully"]]

deleteCompany(user, id) ==
  /\ resp = NoResp
  /\ resp' = DeleteCompanyResponse(user, id)
  /\ companies' = IF Authenticated(user)
                    THEN companies \ OwnedCompany(id, user)
                    ELSE companies
  /\ UNCHANGED <<links, cookies, users, authUsers, companySeq>>

(* ---------------- /admin ---------------- *)

\* users row by primary key
UserRow(userId) == CHOOSE u \in users : u.id = userId

\* authenticateUser alone: requireAdmin left out
AdminGate_tokenOnly(op, user) ==
  IF ~Authenticated(user) THEN Unauthorized(op) ELSE NoResp

\* authenticateUser, then requireAdmin, which reads the caller's role from
\* the users table: the refusal, or NoResp when the handler is reached
AdminGate(op, user) ==
  IF ~Authenticated(user) THEN Unauthorized(op)
  ELSE IF ~UserExists(user) THEN
    [op |-> op, arg |-> "", status |-> 403,
     body |-> [error |-> "Unable to verify user role"]]
  ELSE IF UserRow(user).role # "admin" THEN
    [op |-> op, arg |-> "", status |-> 403,
     body |-> [error |-> "Access denied. Admin privileges required."]]
  ELSE NoResp

\* the response of PATCH /admin/users/:userId/role
UpdateUserRoleResponse(user, userId, role) ==
  IF AdminGate("updateUserRole", user) # NoResp
    THEN AdminGate("updateUserRole", user)
  ELSE IF role \notin {"admin", "user"} THEN
    [op |-> "updateUserRole", arg |-> userId, status |-> 400,
     body |-> [error |-> "Valid role is required (admin or user)"]]
  ELSE IF ~UserExists(userId) THEN
    [op |-> "updateUserRole", arg |-> userId, status |-> 404,
     body |-> [error |-> "User not found"]]
  ELSE IF UserRow(userId).company_id # UserRow(user).company_id THEN
    [op |-> "updateUserRole", arg |-> userId, status |-> 403,
     body |-> [error |-> "Cannot modify users from other companies"]]
  ELSE
    [op |-> "updateUserRole", arg |-> userId, status |-> 200,
     body |-> [message |-> "User role updated successfully"]]

updateUserRole(user, userId, role) ==
  /\ resp = NoResp
  /\ resp' = UpdateUserRoleResponse(user, userId, role)
  /\ users' = IF resp'.status = 200
                THEN {IF u.id = userId THEN [u EXCEPT !.role = role] ELSE u :
                        u \in users}
                ELSE users
  /\ UNCHANGED <<links, cookies, authUsers, companies, companySeq>>

\* the response of DELETE /admin/users/:userId without the comparison of
\* userId with req.user.id
DeleteUserResponse_noSelfCheck(user, userId) ==
  IF AdminGate("deleteUser", user) # NoResp
    THEN AdminGate("deleteUser", user)
  ELSE IF ~UserExists(userId) THEN
    [op |-> "deleteUser", arg |-> userId, status |-> 404,
     body |-> [error |-> "User not found"]]
  ELSE IF UserRow(userId).company_id # UserRow(user).company_id THEN
    [op |-> "deleteUser", arg |-> userId, status |-> 403,
     body |-> [error |-> "Cannot delete users from other companies"]]
  ELSE IF userId \notin authUsers THEN
    [op |-> "deleteUser", arg |-> userId, status |-> 500,
     body |-> [error |-> "Failed to delete user"]]
  ELSE
    [op |-> "deleteUser", arg |-> userId, status |-> 200,
     body |-> [message |-> "User deleted successfully"]]

\* the response of DELETE /admin/users/:userId; the identity provider
\* reports an error for an account it does not hold
DeleteUserResponse(user, userId) ==
  IF AdminGate("deleteUser", user) # NoResp
    THEN AdminGate("deleteUser", user)
  ELSE IF userId = user THEN
    [op |-> "deleteUser", arg |-> userId, status |-> 400,
     body |-> [error |-> "Cannot delete your own account"]]
  ELSE IF ~UserExists(userId) THEN
    [op |-> "deleteUser", arg |-> userId, status |-> 404,
     body |-> [error |-> "User not found"]]
  ELSE IF UserRow(userId).company_id # UserRow(user).company_id THEN
    [op |-> "deleteUser", arg |-> userId, status |-> 403,
     body |-> [error |-> "Cannot delete users from other companies"]]
  ELSE IF userId \notin authUsers THEN
    [op |-> "deleteUser", arg |-> userId, status |-> 500,
     body |-> [error |-> "Failed to delete user"]]
  ELSE
    [op |-> "deleteUser", arg |-> userId, status |-> 200,
     body |-> [message |-> "User deleted successfully"]]

\* supabaseAdmin.auth.admin.deleteUser(userId) is the handler's only write
deleteUser(user, userId) ==
  /\ resp = NoResp
  /\ resp' = DeleteUserResponse(user, userId)
  /\ authUsers' = IF resp'.status = 200 THEN authUsers \ {userId}
                  ELSE authUsers
  /\ UNCHANGED <<links, cookies, users, companies, companySeq>>

\* the select without .eq('company_id', adminData.company_id)
CompanyUsers_all(companyId) == users

\* .from('users').eq('company_id', adminData.company_id)
CompanyUsers(companyId) == {u \in users : u.company_id = companyId}

\* the response of GET /admin/users: the columns selected of the users of
\* the admin's company
GetCompanyUsersResponse(user) ==
  IF AdminGate("getCompanyUsers", user) # NoResp
    THEN AdminGate("getCompanyUsers", user)
  ELSE
    [op |-> "getCompanyUsers", arg |-> "", status |-> 200,
     body |-> [users |-> {[id |-> u.id, email |-> u.email, role |-> u.role] :
                            u \in CompanyUsers(UserRow(user).company_id)}]]

getCompanyUsers(user) ==
  /\ resp = NoResp
  /\ resp' = GetCompanyUsersResponse(user)
  /\ UNCHANGED <<links, accounts>>

\* the ids the identity provider gives to new accounts
NewUserIds == {"n1", "n2"}

\* the address an identity-provider account is registered with
EmailOf(id) ==
  CASE id = "u1" -> "u1@acme"
    [] id = "u2" -> "u2@bolt"
    [] id = "u3" -> "u3@acme"
    [] OTHER -> "new@acme"

\* auth.admin.createUser refuses an address that an account already has
EmailRegistered(email) == \E id \in authUsers : EmailOf(id) = email

\* the error of the insert into users: password_hash is NOT NULL without a
\* default and absent from the row; id is the primary key; email is UNIQUE
InsertUserError(row) ==
  \/ "password_hash" \notin DOMAIN row
  \/ \E u \in users : u.id = row.id \/ u.email = row.email

\* the handler continuing without auth.admin.deleteUser(authData.user.id)
Rollback_skipped(accountIds, id) == accountIds

\* auth.admin.deleteUser(authData.user.id) after a failed insert
Rollback(accountIds, id) == accountIds \ {id}

\* the row createUser inserts: { id, email, company_id, role }, role
\* defaulting to 'user' when the body has none
NewUserRow(user, id, email, role) ==
  [id |-> id, email |-> email, company_id |-> UserRow(user).company_id,
   role |-> IF role = Undefined THEN "user" ELSE role]

\* the response of POST /admin/users, id being the id the provider gives to
\* the new account
CreateUserResponse(user, id, email, password, role) ==
  IF AdminGate("createUser", user) # NoResp
    THEN AdminGate("createUser", user)
  ELSE IF email = "" \/ password = "" THEN
    [op |-> "createUser", arg |-> "", status |-> 400,
     body |-> [error |-> "Email and password are required"]]
  ELSE IF EmailRegistered(email) THEN
    [op |-> "createUser", arg |-> "", status |-> 500,
     body |-> [error |-> "Failed to create user",
               details |-> "A user with this email address has already been registered"]]
  ELSE IF InsertUserError(NewUserRow(user, id, email, role)) THEN
    [op |-> "createUser", arg |-> id, status |-> 500,
     body |-> [error |-> "Failed to create user in database"]]
  ELSE
    [op |-> "createUser", arg |-> id, status |-> 201,
     body |-> [user |-> [id |-> id, email |-> email,
                         role |-> NewUserRow(user, id, email, role).role,
                         companyId |-> UserRow(user).company_id]]]

\* POST /admin/users: the account is created at the provider, then the
\* users row is inserted; a failed insert deletes the account again
createUser(user, email, password, role) ==
  /\ resp = NoResp
  /\ \E id \in NewUserIds :
       /\ id \notin authUsers
       /\ LET r == CreateUserResponse(user, id, email, password, role)
              created == r.arg = id
              stored == r.status = 201 IN
          /\ resp' = r
          /\ users' = IF stored
                        THEN users \cup {NewUserRow(user, id, email, role)}
                        ELSE users
          /\ authUsers' = IF stored THEN authUsers \cup {id}
                          ELSE IF created
                            THEN Rollback(authUsers \cup {id}, id)
                          ELSE authUsers
  /\ UNCHANGED <<links, cookies, companies, companySeq>>

(* ---------------- /auth ---------------- *)

AccessCookie == "sb-access-token"
RefreshCookie == "sb-refresh-token"

\* authService.signIn: the provider opens a session for the password of an
\* account it holds
SessionOpened(user, password) == user \in authUsers /\ password = "pw"

\* companyData?.name of the user's company, null when there is no such row
CompanyNameOf(companyId) ==
  IF \E c \in companies : c.id = companyId
    THEN (CHOOSE c \in companies : c.id = companyId).name
    ELSE Null

\* the response of POST /auth/signin with the address of user
SignInResponse(user, password) ==
  IF password = "" THEN
    [op |-> "signIn", arg |-> user, status |-> 400,
     body |-> [error |-> "Email and password are required."]]
  ELSE IF ~SessionOpened(user, password) THEN
    [op |-> "signIn", arg |-> user, status |-> 401,
     body |-> [error |-> "Invalid credentials"]]
  ELSE IF ~UserExists(user) THEN
    [op |-> "signIn", arg |-> user, status |-> 500,
     body |-> [error |-> "Failed to fetch user data"]]
  ELSE
    [op |-> "signIn", arg |-> user, status |-> 200,
     body |-> [message |-> "User signed in successfully.",
               accessToken |-> user,
               user |-> [id |-> user, email |-> EmailOf(user),
                         role |-> UserRow(user).role,
                         company |->
                           [id |-> UserRow(user).company_id,
                            name |-> CompanyNameOf(UserRow(user).company_id)]]]]

\* POST /auth/signin: both cookies are set in the browser of user
signIn(user, password) ==
  /\ resp = NoResp
  /\ resp' = SignInResponse(user, password)
  /\ cookies' = IF resp'.status = 200
                  THEN [cookies EXCEPT ![user] = @ \cup {AccessCookie,
                                                         RefreshCookie}]
                  ELSE cookies
  /\ UNCHANGED <<links, users, authUsers, companies, companySeq>>

\* the response of POST /auth/admin/login with the address of user
AdminLoginResponse(user, password) ==
  IF password = "" THEN
    [op |-> "adminLogin", arg |-> user, status |-> 400,
     body |-> [error |-> "Email and password are required"]]
  ELSE IF ~SessionOpened(user, password) THEN
    [op |-> "adminLogin", arg |-> user, status |-> 401,
     body |-> [error |-> "Invalid credentials"]]
  ELSE IF ~UserExists(user) THEN
    [op |-> "adminLogin", arg |-> user, status |-> 500,
     body |-> [error |-> "Failed to verify user role"]]
  ELSE IF UserRow(user).role # "admin" THEN
    [op |-> "adminLogin", arg |-> user, status |-> 403,
     body |-> [error |-> "Access denied. Admin privileges required."]]
  ELSE
    [op |-> "adminLogin", arg |-> user, status |-> 200,
     body |-> [user |-> [id |-> user, email |-> EmailOf(user),
                         role |-> UserRow(user).role,
                         companyId |-> UserRow(user).company_id],
               session |-> [accessToken |-> user]]]

\* POST /auth/admin/login: the access cookie alone is set
adminLogin(user, password) ==
  /\ resp = NoResp
  /\ resp' = AdminLoginResponse(user, password)
  /\ cookies' = IF resp'.status = 200
                  THEN [cookies EXCEPT ![user] = @ \cup {AccessCookie}]
                  ELSE cookies
  /\ UNCHANGED <<links, users, authUsers, companies, companySeq>>

\* the token authenticateUser finds in a request from the browser of user:
\* the Authorization header when the request has one, else the
\* sb-access-token cookie, else none
TokenOf(user, bearer) ==
  IF bearer THEN user
  ELSE IF AccessCookie \in cookies[user] THEN user
  ELSE NoUser

\* the response of POST /auth/logout; the handler reads the token from the
\* Authorization header alone, and the error of auth.admin.signOut is
\* logged and ignored
LogoutResponse(user, bearer, signOutError) ==
  IF ~Authenticated(TokenOf(user, bearer)) THEN Unauthorized("logout")
  ELSE IF ~bearer THEN
    [op |-> "logout", arg |-> user, status |-> 400,
     body |-> [error |-> "No token provided"]]
  ELSE
    [op |-> "logout", arg |-> user, status |-> 200,
     body |-> [message |-> "Logged out successfully"]]

\* POST /auth/logout: clearCookie for both cookies before the 200
logout(user, bearer, signOutError) ==
  /\ resp = NoResp
  /\ resp' = LogoutResponse(user, bearer, signOutError)
  /\ cookies' = IF resp'.status = 200
                  THEN [cookies EXCEPT ![user] = @ \ {AccessCookie,
                                                      RefreshCookie}]
                  ELSE cookies
  /\ UNCHANGED <<links, users, authUsers, companies, companySeq>>

\* the response of POST /auth/signout
SignOutResponse(user, bearer) ==
  IF ~Authenticated(TokenOf(user, bearer)) THEN Unauthorized("signOut")
  ELSE
    [op |-> "signOut", arg |-> user, status |-> 200,
     body |-> [message |-> "User signed out successfully."]]

\* POST /auth/signout: clearCookie for both cookies
signOut(user, bearer) ==
  /\ resp = NoResp
  /\ resp' = SignOutResponse(user, bearer)
  /\ cookies' = IF resp'.status = 200
                  THEN [cookies EXCEPT ![user] = @ \ {AccessCookie,
                                                      RefreshCookie}]
                  ELSE cookies
  /\ UNCHANGED <<links, users, authUsers, companies, companySeq>>

(* ---------------- POST /links ---------------- *)

\* link_id without its UNIQUE constraint
LinkIdTaken_unchecked(linkId) == FALSE

\* link_id TEXT UNIQUE NOT NULL
LinkIdTaken(linkId) == LinksById(linkId) # {}

\* what the insert of a share_links row through supabaseAdmin reports:
\* the unique violation, document_id REFERENCES documents(id), or
\* created_by REFERENCES users(id)
InsertShareLinkError(documentId, linkId, createdBy) ==
  \/ LinkIdTaken(linkId)
  \/ ~DocExists(documentId)
  \/ ~UserExists(createdBy)

\* the route without authenticateUser: the handler runs for any caller
createShareLink_noAuth(user, documentId, expiresAt, linkId) ==
  /\ resp = NoResp
  /\ IF documentId = "" THEN
       /\ resp' = [op |-> "create", arg |-> "", status |-> 400,
                   body |-> [error |-> "documentId is required"]]
       /\ UNCHANGED <<store, ghost>>
     ELSE IF InsertShareLinkError(documentId, linkId, user) THEN
       /\ resp' = [op |-> "create", arg |-> documentId, status |-> 500,
                   body |-> [error |-> "Failed to create share link"]]
       /\ UNCHANGED <<store, ghost>>
     ELSE
       /\ linkSeq < MaxLinks
       /\ linkSeq' = linkSeq + 1
       /\ share_links' = share_links \cup
            {[id |-> linkSeq + 1, document_id |-> documentId,
              link_id |-> linkId, created_by |-> user,
              expires_at |-> expiresAt]}
       /\ resp' = [op |-> "create", arg |-> "", status |-> 201,
                   body |-> [linkId |-> linkId, documentId |-> documentId,
                             expiresAt |-> expiresAt, createdBy |-> user]]
       /\ issued' = [issued EXCEPT ![linkId] = @ + 1]
       /\ UNCHANGED <<documents, share_link_logs, logSeq, logged, revoked>>
  /\ UNCHANGED <<now, rlsApplied, logReq, logCap, accounts>>

\* authenticateUser, then createShareLink; linkId is the value nanoid(12)
\* returns, expiresAt = NoTime is a body without expiresAt
createShareLink(user, documentId, expiresAt, linkId) ==
  /\ resp = NoResp
  /\ IF user = NoUser THEN
       /\ resp' = [op |-> "create", arg |-> "", status |-> 401,
                   body |-> [error |-> "Missing or invalid authorization"]]
       /\ UNCHANGED <<store, ghost>>
     ELSE IF documentId = "" THEN
       /\ resp' = [op |-> "create", arg |-> "", status |-> 400,
                   body |-> [error |-> "documentId is required"]]
       /\ UNCHANGED <<store, ghost>>
     ELSE IF InsertShareLinkError(documentId, linkId, user) THEN
       /\ resp' = [op |-> "create", arg |-> documentId, status |-> 500,
                   body |-> [error |-> "Failed to create share link"]]
       /\ UNCHANGED <<store, ghost>>
     ELSE
       /\ linkSeq < MaxLinks
       /\ linkSeq' = linkSeq + 1
       /\ share_links' = share_links \cup
            {[id |-> linkSeq + 1, document_id |-> documentId,
              link_id |-> linkId, created_by |-> user,
              expires_at |-> expiresAt]}
       /\ resp' = [op |-> "create", arg |-> "", status |-> 201,
                   body |-> [linkId |-> linkId, documentId |-> documentId,
                             expiresAt |-> expiresAt, createdBy |-> user]]
       /\ issued' = [issued EXCEPT ![linkId] = @ + 1]
       /\ UNCHANGED <<documents, share_link_logs, logSeq, logged, revoked>>
  /\ UNCHANGED <<now, rlsApplied, logReq, logCap, accounts>>

(* ---------------- GET /links/:linkId ---------------- *)

\* the response of getDocumentByLink evaluated at server time t
ResolveResponse(linkId, t) ==
  LET rows == SelectShareLinks(linkId, FALSE, AnonUid) IN
  IF linkId = "" THEN
    [op |-> "get", arg |-> linkId, status |-> 400,
     body |-> [error |-> "linkId is required"]]
  ELSE IF Cardinality(rows) # 1 THEN
    [op |-> "get", arg |-> linkId, status |-> 404,
     body |-> [error |-> "Share link not found"]]
  ELSE LET shareLink == CHOOSE r \in rows : TRUE IN
    IF IsExpired(shareLink, t) THEN
      [op |-> "get", arg |-> linkId, status |-> 410,
       body |-> [error |-> "Share link has expired"]]
    ELSE
      [op |-> "get", arg |-> linkId, status |-> 200,
       body |-> [documentId |-> shareLink.document_id,
                 linkId |-> shareLink.link_id,
                 expiresAt |-> shareLink.expires_at]]

\* a GET that records the view itself
getDocumentByLink_recordsView(linkId) ==
  /\ resp = NoResp
  /\ resp' = ResolveResponse(linkId, now)
  /\ logSeq < logCap
  /\ logSeq' = logSeq + 1
  /\ share_link_logs' = share_link_logs \cup
       {[id |-> logSeq + 1, link_id |-> linkId, timestamp |-> now,
         ip_address |-> "unknown", user_agent |-> "unknown"]}
  /\ UNCHANGED <<now, rlsApplied, documents, share_links, linkSeq, logReq,
                 ghost, logCap, accounts>>

getDocumentByLink(linkId) ==
  /\ resp = NoResp
  /\ resp' = ResolveResponse(linkId, now)
  /\ UNCHANGED <<now, rlsApplied, store, logReq, ghost, logCap, accounts>>

(* ---------------- POST /links/:linkId/log ---------------- *)

InFlight == Cardinality({v \in Viewers : logReq[v].state = "checked"})

\* the existence check also refusing a link past its expires_at
LinkCheckFails_gated(linkId) ==
  \/ Cardinality(SelectShareLinks(linkId, FALSE, AnonUid)) # 1
  \/ \E r \in LinksById(linkId) : IsExpired(r, now)

\* linkError || !shareLink after .select('link_id').eq('link_id', linkId).single()
LinkCheckFails(linkId) ==
  Cardinality(SelectShareLinks(linkId, FALSE, AnonUid)) # 1

\* first store call of logLinkView: "Verify the link exists"; on success
\* the handler resolves ip and user agent and goes on to the insert
logLinkViewCheck(v, linkId, ipAddress, userAgent, reqIp, forwardedFor, uaHeader) ==
  /\ resp = NoResp
  /\ logReq[v].state = "idle"
  /\ IF linkId = "" THEN
       /\ resp' = [op |-> "log", arg |-> linkId, status |-> 400,
                   body |-> [error |-> "linkId is required"]]
       /\ UNCHANGED logReq
     ELSE IF LinkCheckFails(linkId) THEN
       /\ resp' = [op |-> "log", arg |-> linkId, status |-> 404,
                   body |-> [error |-> "Share link not found"]]
       /\ UNCHANGED logReq
     ELSE
       /\ logSeq + InFlight < logCap
       /\ logReq' = [logReq EXCEPT ![v] =
            [state |-> "checked", linkId |-> linkId,
             ip |-> ClientIp(ipAddress, reqIp, forwardedFor),
             ua |-> ClientUserAgent(userAgent, uaHeader),
             ipAddress |-> ipAddress, userAgent |-> userAgent,
             reqIp |-> reqIp, forwardedFor |-> forwardedFor,
             uaHeader |-> uaHeader]]
       /\ UNCHANGED resp
  /\ UNCHANGED <<now, rlsApplied, store, ghost, logCap, accounts>>

\* an insert that reports no error
InsertLogError_none(linkId) == FALSE

\* share_link_logs.link_id without its foreign key
LogLinkMissing_unchecked(linkId) == FALSE

\* link_id TEXT NOT NULL REFERENCES share_links(link_id)
LogLinkMissing(linkId) == LinksById(linkId) = {}

\* what the insert of a share_link_logs row through the anon client
\* reports: the foreign-key violation, or, with row-level security on, the
\* denial of .insert().select(), which returns the new row and so needs a
\* SELECT policy to pass for it
InsertLogError(linkId) ==
  \/ LogLinkMissing(linkId)
  \/ rlsApplied /\ ~PolicyOwnersViewLinkLogs(linkId, AnonUid)

\* second store call of logLinkView: "Log the view"
logLinkViewInsert(v) ==
  /\ resp = NoResp
  /\ logReq[v].state = "checked"
  /\ LET r == logReq[v] IN
     IF InsertLogError(r.linkId) THEN
       /\ resp' = [op |-> "log", arg |-> r.linkId, status |-> 500,
                   body |-> [error |-> "Failed to log view"]]
       /\ UNCHANGED <<store, ghost>>
     ELSE
       /\ logSeq' = logSeq + 1
       /\ share_link_logs' = share_link_logs \cup
            {[id |-> logSeq + 1, link_id |-> r.linkId, timestamp |-> now,
              ip_address |-> r.ip, user_agent |-> r.ua]}
       /\ resp' = [op |-> "log", arg |-> r.linkId, status |-> 201,
                   body |-> [logged |-> TRUE, timestamp |-> now]]
       /\ logged' = [logged EXCEPT ![r.linkId] = @ + 1]
       /\ UNCHANGED <<documents, share_links, linkSeq, issued, revoked>>
  /\ logReq' = [logReq EXCEPT ![v] = NoReq]
  /\ UNCHANGED <<now, rlsApplied, logCap, accounts>>

(* ---------------- GET /links/:linkId/stats ---------------- *)

\* the view runs with its owner's rights: row-level security of the
\* underlying tables does not filter it
getLinkStats(linkId) ==
  /\ resp = NoResp
  /\ LET rows == {s \in share_link_stats : s.link_id = linkId} IN
     resp' = IF linkId = "" THEN
               [op |-> "stats", arg |-> linkId, status |-> 400,
                body |-> [error |-> "linkId is required"]]
             ELSE IF Cardinality(rows) # 1 THEN
               [op |-> "stats", arg |-> linkId, status |-> 404,
                body |-> [error |-> "Share link not found"]]
             ELSE LET data == CHOOSE s \in rows : TRUE IN
               [op |-> "stats", arg |-> linkId, status |-> 200,
                body |-> [linkId |-> data.link_id,
                          documentId |-> data.document_id,
                          viewCount |-> data.view_count,
                          lastOpened |-> data.last_opened,
                          expiresAt |-> data.expires_at]]
  /\ UNCHANGED <<now, rlsApplied, store, logReq, ghost, logCap, accounts>>

(* ---------------- the environment ---------------- *)

\* server wall clock
Tick ==
  /\ resp = NoResp
  /\ now < MaxTime
  /\ now' = now + 1
  /\ UNCHANGED <<rlsApplied, store, logReq, ghost, resp, logCap, accounts>>

\* database set-up, second script: rls-policies.sql is executed
ApplyRlsPolicies ==
  /\ resp = NoResp
  /\ ~rlsApplied
  /\ rlsApplied' = TRUE
  /\ UNCHANGED <<now, store, logReq, ghost, resp, logCap, accounts>>

\* the foreign keys without ON DELETE CASCADE enforcement: only the
\* documents row goes
DeleteDocument_noCascade(documentId) ==
  /\ resp = NoResp
  /\ DocExists(documentId)
  /\ documents' = {d \in documents : d.id # documentId}
  /\ revoked' = revoked \cup
       {r.link_id : r \in {x \in share_links : x.document_id = documentId}}
  /\ UNCHANGED <<now, rlsApplied, share_links, share_link_logs, linkSeq,
                 logSeq, logReq, issued, logged, resp, logCap, accounts>>

\* a documents row is deleted in the store; ON DELETE CASCADE removes its
\* share_links rows and their share_link_logs rows
DeleteDocument(documentId) ==
  /\ resp = NoResp
  /\ DocExists(documentId)
  /\ LET gone == {r \in share_links : r.document_id = documentId}
         goneIds == {r.link_id : r \in gone} IN
     /\ documents' = {d \in documents : d.id # documentId}
     /\ share_links' = share_links \ gone
     /\ share_link_logs' = {g \in share_link_logs : g.link_id \notin goneIds}
     /\ revoked' = revoked \cup goneIds
  /\ UNCHANGED <<now, rlsApplied, linkSeq, logSeq, logReq, issued, logged,
                 resp, logCap, accounts>>

\* share_links.created_by with ON DELETE CASCADE in place of SET NULL
DeleteUser_cascadeIssuer(userId) ==
  /\ resp = NoResp
  /\ UserExists(userId)
  /\ LET docsGone == {d.id : d \in {x \in documents : x.owner_id = userId}}
         gone == {r \in share_links :
                    r.document_id \in docsGone \/ r.created_by = userId}
         goneIds == {r.link_id : r \in gone} IN
     /\ users' = {u \in users : u.id # userId}
     /\ documents' = {d \in documents : d.id \notin docsGone}
     /\ share_links' = share_links \ gone
     /\ share_link_logs' = {g \in share_link_logs : g.link_id \notin goneIds}
     /\ revoked' = revoked \cup goneIds
  /\ UNCHANGED <<now, rlsApplied, linkSeq, logSeq, logReq, issued, logged,
                 resp, logCap, authUsers, companies, companySeq, cookies>>

\* a users row is deleted in the store: documents.owner_id ON DELETE
\* CASCADE removes the user's documents, and with them their links and
\* logs; share_links.created_by ON DELETE SET NULL clears the issuer of the
\* links that remain
DeleteUser(userId) ==
  /\ resp = NoResp
  /\ UserExists(userId)
  /\ LET docsGone == {d.id : d \in {x \in documents : x.owner_id = userId}}
         gone == {r \in share_links : r.document_id \in docsGone}
         goneIds == {r.link_id : r \in gone} IN
     /\ users' = {u \in users : u.id # userId}
     /\ documents' = {d \in documents : d.id \notin docsGone}
     /\ share_links' =
          {IF r.created_by = userId THEN [r EXCEPT !.created_by = Null] ELSE r :
             r \in share_links \ gone}
     /\ share_link_logs' = {g \in share_link_logs : g.link_id \notin goneIds}
     /\ revoked' = revoked \cup goneIds
  /\ UNCHANGED <<now, rlsApplied, linkSeq, logSeq, logReq, issued, logged,
                 resp, logCap, authUsers, companies, companySeq, cookies>>

(* ---------------- request inputs ---------------- *)
ExpiresInputs == {NoTime} \cup Times
DocumentIdInputs == DocIds \cup {""}
LinkIdInputs == LinkIds \cup {""}
IpInputs == {"", "10.0.0.1"}
ReqIpInputs == {"", "10.0.0.2"}
ForwardedInputs == {"", "10.0.0.3"}
UserAgentInputs == {"", "curl"}
UaHeaderInputs == {"", "Mozilla"}
ViewerIps == {"10.0.0.1", "10.0.0.2", "10.0.0.3"}
CompanyIdInputs == {CompanyIdOf(n) : n \in 1..MaxCompanies}
NameInputs == {"", " ", " Zed "}
LogoInputs == {Undefined, "logo"}
UserIdInputs == UserIds \cup {"u9"}
RoleInputs == {"", "admin", "user", "viewer"}
EmailInputs == {"", "u3@acme", "new@acme"}
PasswordInputs == {"", "pw"}
CreateRoleInputs == {Undefined, "admin", "owner"}
Callers == UserIds \cup {NoUser}
SignInPasswords == {"", "pw", "bad"}

\* the response has been written and the request is over
EndRequest ==
  /\ resp # NoResp
  /\ resp' = NoResp
  /\ UNCHANGED <<now, rlsApplied, store, logReq, ghost, logCap, accounts>>

\* one store call of a handler, or one environment step; the responses are
\* observed one at a time; the log request's optional inputs are drawn from
\* the given sets
Step(ips, agents, reqIps, forwards, uaHeaders) ==
  \/ \E user \in Users \cup {NoUser}, documentId \in DocumentIdInputs,
        expiresAt \in ExpiresInputs, linkId \in LinkIds :
       createShareLink(user, documentId, expiresAt, linkId)
  \/ \E linkId \in LinkIdInputs : getDocumentByLink(linkId)
  \/ \E v \in Viewers, linkId \in LinkIdInputs, ipAddress \in ips,
        userAgent \in agents, reqIp \in reqIps,
        forwardedFor \in forwards, uaHeader \in uaHeaders :
       logLinkViewCheck(v, linkId, ipAddress, userAgent, reqIp,
                        forwardedFor, uaHeader)
  \/ \E v \in Viewers : logLinkViewInsert(v)
  \/ \E linkId \in LinkIdInputs : getLinkStats(linkId)
  \/ Tick
  \/ ApplyRlsPolicies
  \/ \E documentId \in DocIds : DeleteDocument(documentId)
  \/ EndRequest

\* every viewer sends its address in the payload and no user agent
Next == Step({"10.0.0.1"}, {""}, {""}, {""}, {""})

Spec == Init /\ [][Next]_vars

\* the log handler under every combination of present and absent inputs:
\* user u1 issues link "a" for d1, viewer v1 logs views of it
NextFallback ==
  \/ createShareLink("u1", "d1", NoTime, "a")
  \/ \E ipAddress \in IpInputs, userAgent \in UserAgentInputs,
        reqIp \in ReqIpInputs, forwardedFor \in ForwardedInputs,
        uaHeader \in UaHeaderInputs :
       logLinkViewCheck("v1", "a", ipAddress, userAgent, reqIp,
                        forwardedFor, uaHeader)
  \/ logLinkViewInsert("v1")
  \/ EndRequest

SpecFallback == Init /\ [][NextFallback]_vars

\* the four handlers alone, with one viewer and the clock: no set-up step
\* and no deletion in the store
NextHandlers ==
  \/ \E user \in Users \cup {NoUser}, documentId \in DocumentIdInputs,
        expiresAt \in ExpiresInputs, linkId \in LinkIds :
       createShareLink(user, documentId, expiresAt, linkId)
  \/ \E linkId \in LinkIdInputs : getDocumentByLink(linkId)
  \/ \E linkId \in LinkIdInputs :
       logLinkViewCheck("v1", linkId, "10.0.0.1", "", "", "", "")
  \/ logLinkViewInsert("v1")
  \/ \E linkId \in LinkIdInputs : getLinkStats(linkId)
  \/ Tick
  \/ EndRequest

SpecHandlers == Init /\ [][NextHandlers]_vars

\* the four handlers at one instant: the requests of every caller, with or
\* without session and documentId, and one viewer
NextGate ==
  \/ \E user \in Users \cup {NoUser}, documentId \in DocumentIdInputs,
        expiresAt \in ExpiresInputs, linkId \in LinkIds :
       createShareLink(user, documentId, expiresAt, linkId)
  \/ \E linkId \in LinkIdInputs : getDocumentByLink(linkId)
  \/ \E linkId \in LinkIdInputs :
       logLinkViewCheck("v1", linkId, "10.0.0.1", "", "", "", "")
  \/ logLinkViewInsert("v1")
  \/ \E linkId \in LinkIdInputs : getLinkStats(linkId)
  \/ EndRequest

SpecGate == Init /\ [][NextGate]_vars

\* the company routes: every caller, with or without session, against
\* every company id
NextCompany ==
  \/ \E user \in Users \cup {NoUser} : getCompanies(user)
  \/ \E user \in Users \cup {NoUser}, name \in NameInputs,
        logo_url \in LogoInputs : createCompany(user, name, logo_url)
  \/ \E user \in Users \cup {NoUser}, id \in CompanyIdInputs :
       getCompanyById(user, id)
  \/ \E user \in Users \cup {NoUser}, id \in CompanyIdInputs,
        name \in NameInputs, logo_url \in LogoInputs :
       updateCompany(user, id, name, logo_url)
  \/ \E user \in Users \cup {NoUser}, id \in CompanyIdInputs :
       deleteCompany(user, id)
  \/ EndRequest

SpecCompany == Init /\ [][NextCompany]_vars

\* the routes that name their target by id: /companies and the user
\* management of /admin
NextTenants ==
  \/ NextCompany
  \/ \E user \in UserIds \cup {NoUser}, userId \in UserIdInputs,
        role \in RoleInputs : updateUserRole(user, userId, role)
  \/ \E user \in UserIds \cup {NoUser}, userId \in UserIdInputs :
       deleteUser(user, userId)

SpecTenants == Init /\ [][NextTenants]_vars

\* links and the deletion of users rows: u1 owns d1, u1 and u2 issue links
\* for it
NextIssuer ==
  \/ \E user \in Users, expiresAt \in ExpiresInputs, linkId \in LinkIds :
       createShareLink(user, "d1", expiresAt, linkId)
  \/ \E linkId \in LinkIds : getDocumentByLink(linkId)
  \/ \E userId \in UserIds : DeleteUser(userId)
  \/ Tick
  \/ EndRequest

SpecIssuer == Init /\ [][NextIssuer]_vars
\* the session handlers of /auth, each user with their own browser
NextSession ==
  \/ \E user \in UserIds, password \in SignInPasswords : signIn(user, password)
  \/ \E user \in UserIds, password \in SignInPasswords :
       adminLogin(user, password)
  \/ \E user \in UserIds, bearer \in BOOLEAN, signOutError \in BOOLEAN :
       logout(user, bearer, signOutError)
  \/ \E user \in UserIds, bearer \in BOOLEAN : signOut(user, bearer)
  \/ EndRequest

SpecSession == Init /\ [][NextSession]_vars

\* the admin handlers alone
NextAdmin ==
  \/ \E user \in Callers : getCompanyUsers(user)
  \/ \E user \in Callers, email \in EmailInputs, password \in PasswordInputs,
        role \in CreateRoleInputs : createUser(user, email, password, role)
  \/ \E user \in Callers, userId \in UserIdInputs, role \in RoleInputs :
       updateUserRole(user, userId, role)
  \/ \E user \in Callers, userId \in UserIdInputs : deleteUser(user, userId)
  \/ EndRequest

SpecAdmin == Init /\ [][NextAdmin]_vars

\* log requests of two viewers interleaved with the deletion of the
\* document: u1 issues links for d1, the viewers check and insert, d1 is
\* deleted at any point between
NextRace ==
  \/ \E linkId \in LinkIds : createShareLink("u1", "d1", NoTime, linkId)
  \/ \E v \in Viewers, linkId \in LinkIds :
       logLinkViewCheck(v, linkId, "10.0.0.1", "", "", "", "")
  \/ \E v \in Viewers : logLinkViewInsert(v)
  \/ DeleteDocument("d1")
  \/ EndRequest

SpecRace == Init /\ [][NextRace]_vars

\* repeated views of one link from three addresses: user u1 issues link "a"
\* for d1, the viewers log up to MaxViews views of it and read its statistics
InitViewers == Boot /\ logCap = MaxViews

NextViewers ==
  \/ createShareLink("u1", "d1", NoTime, "a")
  \/ \E v \in Viewers, ipAddress \in ViewerIps :
       logLinkViewCheck(v, "a", ipAddress, "", "", "", "")
  \/ \E v \in Viewers : logLinkViewInsert(v)
  \/ getLinkStats("a")
  \/ EndRequest

SpecViewers == InitViewers /\ [][NextViewers]_vars

(* ======================================================================= *)
(* Properties                                                              *)
(* ======================================================================= *)

\* the link rows a response to a request for resp.arg is about
Target == LinksById(resp.arg)

\* C1: for a stored link with expiresAt = T, GET /links/:linkId at server
\* time t answers 200 when t < T and 410 when t >= T (t = T included); a
\* link without expiresAt answers 200 at every t.
C1_ExpirationBoundary ==
  \A r \in share_links :
    LET status == ResolveResponse(r.link_id, now).status IN
    /\ r.expires_at = NoTime => status = 200
    /\ (r.expires_at # NoTime /\ now < r.expires_at) => status = 200
    /\ (r.expires_at # NoTime /\ now >= r.expires_at) => status = 410

\* C2: GET /links/:linkId answers 404 exactly for identifiers with no
\* stored link and 410 for a stored link whose expiresAt has elapsed; an
\* existing expired link never answers 404, an absent one never 410.
C2_NotFoundVersusExpired ==
  (resp.op = "get" /\ resp.arg # "") =>
    /\ Target = {} => resp.status = 404
    /\ (\E r \in Target : r.expires_at # NoTime /\ r.expires_at < now)
         => resp.status = 410

\* C3: a GET /links/:linkId response carries a documentId only with status
\* 200, only when the link is stored and not past its expiresAt at that
\* time, and then it is the documentId stored for exactly that linkId.
C3_DocumentIdOnlyWhenActive ==
  resp.op = "get" =>
    IF resp.status = 200
      THEN \E r \in Target :
             /\ resp.body.documentId = r.document_id
             /\ resp.body.linkId = resp.arg
             /\ (r.expires_at = NoTime \/ now <= r.expires_at)
      ELSE "documentId" \notin DOMAIN resp.body

C3_Witness ==
  /\ resp.op = "get" /\ resp.status = 200
  /\ \E r \in Target : r.expires_at # NoTime /\ resp.body.documentId = r.document_id

\* C4: the store never holds two share_links rows with the same link_id,
\* and as long as no link was removed, no linkId was returned by two 201
\* responses of POST /links.
C4_Uniqueness ==
  /\ \A r1, r2 \in share_links : r1.link_id = r2.link_id => r1 = r2
  /\ \A l \in LinkIds \ revoked : issued[l] <= 1

C4_Witness ==
  /\ Cardinality(share_links) = 2
  /\ \A l \in LinkIds : issued[l] = 1

\* C5: an authenticated POST /links with a documentId never fails because
\* the generated identifier is occupied: a 500 answer is only ever given
\* when the store rejects the row for another reason (the document is not
\* there).
C5_CollisionNotSurfaced ==
  (resp.op = "create" /\ resp.status = 500) => ~DocExists(resp.arg)

\* C6: for every stored link that was never removed, viewCount in
\* share_link_stats equals the number of POST /links/:linkId/log calls that
\* answered 201 for it, whatever the interleaving of the log requests.
C6_ViewCountEqualsLogged ==
  \A s \in share_link_stats :
    s.link_id \notin revoked => s.view_count = logged[s.link_id]

C6_Witness ==
  \E s \in share_link_stats :
    s.link_id \notin revoked /\ logged[s.link_id] = 2 /\ s.view_count = 2

\* C7: a POST /links/:linkId/log for a link for which GET answers 410 at
\* that time (stored, expired) answers 201 and has appended a log row.
C7_LogNotGatedByExpiry ==
  (resp.op = "log" /\ ResolveResponse(resp.arg, now).status = 410) =>
    /\ resp.status = 201
    /\ \E g \in share_link_logs :
         g.id = logSeq /\ g.link_id = resp.arg /\ g.timestamp = now

C7_Witness ==
  /\ resp.op = "log" /\ resp.status = 201
  /\ ResolveResponse(resp.arg, now).status = 410

\* C8 as stated: every stored log entry belongs to a link that was Active
\* (stored and not expired) at the entry's timestamp.
C8_OnlyActiveLinksLogged ==
  \A g \in share_link_logs :
    \E r \in LinksById(g.link_id) :
      r.expires_at = NoTime \/ g.timestamp <= r.expires_at

\* C8 amended: every log entry is written, with the current time as its
\* timestamp, for a link that is stored at that moment; whether that link
\* has expired plays no part.
C8_LoggedLinksExist ==
  [][\A g \in share_link_logs' \ share_link_logs :
       g.timestamp = now /\ LinksById(g.link_id) # {}]_vars

C8_Witness ==
  \E g \in share_link_logs : \E r \in LinksById(g.link_id) :
    r.expires_at # NoTime /\ r.expires_at < g.timestamp

\* C9: with the policies of rls-policies.sql applied, an unauthenticated
\* GET /links/:linkId for a stored, unexpired link answers 200 with the
\* link's documentId.
C9_AnonymousAccessUnderRls ==
  (rlsApplied /\ resp.op = "get") =>
    \A r \in Target :
      (r.expires_at = NoTime \/ now <= r.expires_at) =>
        /\ resp.status = 200
        /\ resp.body.documentId = r.document_id

\* C10: a 201 answer of POST /links is only given to the owner of the
\* named document: a principal never creates a link for a document of
\* another principal.
C10_OwnerIsolationOnCreate ==
  (resp.op = "create" /\ resp.status = 201) =>
    \E d \in documents :
      d.id = resp.body.documentId /\ d.owner_id = resp.body.createdBy

\* the log request whose insert is the step from this state to the next
Inserting(v) == logReq[v].state = "checked" /\ logReq'[v].state = "idle"

\* C11 as stated: the ip_address of a new log row is the first non-empty of
\* payload ipAddress, x-forwarded-for, req.ip, "unknown"; its user_agent is
\* the first non-empty of payload userAgent, user-agent header, "unknown".
C11_ForwardedBeforeDirect ==
  [][\A g \in share_link_logs' \ share_link_logs : \E v \in Viewers :
       /\ Inserting(v)
       /\ g.ip_address =
            IF logReq[v].ipAddress # "" THEN logReq[v].ipAddress
            ELSE IF logReq[v].forwardedFor # "" THEN logReq[v].forwardedFor
            ELSE IF logReq[v].reqIp # "" THEN logReq[v].reqIp
            ELSE "unknown"
       /\ g.user_agent =
            IF logReq[v].userAgent # "" THEN logReq[v].userAgent
            ELSE IF logReq[v].uaHeader # "" THEN logReq[v].uaHeader
            ELSE "unknown"]_vars

\* C11 amended: the ip_address of a new log row is the first non-empty of
\* payload ipAddress, req.ip, x-forwarded-for, "unknown" (the direct
\* address before the forwarded header); its user_agent is the first
\* non-empty of payload userAgent, user-agent header, "unknown".
C11_DirectBeforeForwarded ==
  [][\A g \in share_link_logs' \ share_link_logs : \E v \in Viewers :
       /\ Inserting(v)
       /\ g.ip_address =
            IF logReq[v].ipAddress # "" THEN logReq[v].ipAddress
            ELSE IF logReq[v].reqIp # "" THEN logReq[v].reqIp
            ELSE IF logReq[v].forwardedFor # "" THEN logReq[v].forwardedFor
            ELSE "unknown"
       /\ g.user_agent =
            IF logReq[v].userAgent # "" THEN logReq[v].userAgent
            ELSE IF logReq[v].uaHeader # "" THEN logReq[v].uaHeader
            ELSE "unknown"]_vars

\* a view logged from the direct address with both req.ip and the forwarded
\* header present, and a second such request on its way to the insert
C11_Witness ==
  /\ \E g \in share_link_logs :
       g.ip_address = "10.0.0.2" /\ g.user_agent = "Mozilla"
  /\ \E v \in Viewers :
       /\ logReq[v].state = "checked"
       /\ logReq[v].ipAddress = "" /\ logReq[v].reqIp = "10.0.0.2"
       /\ logReq[v].forwardedFor = "10.0.0.3"
       /\ logReq[v].ip = "10.0.0.2"

\* C12: a link without log rows has uniqueViewers 0, a view logged from an
\* address already among the link's log rows leaves uniqueViewers as it is,
\* and a view from an address not yet among them raises it by one: it is
\* the number of distinct addresses that logged a view of the link.
C12_UniqueViewers ==
  [][/\ \A s \in share_link_stats' :
          (\A g \in share_link_logs' : g.link_id # s.link_id)
            => s.unique_viewers = 0
     /\ \A v \in Viewers :
          (Inserting(v) /\ share_link_logs' # share_link_logs) =>
            \E s \in share_link_stats, t \in share_link_stats' :
              /\ s.link_id = logReq[v].linkId /\ t.link_id = s.link_id
              /\ t.unique_viewers =
                   IF \E g \in LogsOf(s.link_id) : g.ip_address = logReq[v].ip
                     THEN s.unique_viewers
                     ELSE s.unique_viewers + 1]_vars

\* four views of one link from three addresses, counted as three viewers
C12_Witness ==
  \E s \in share_link_stats :
    /\ s.view_count = 4
    /\ {g.ip_address : g \in LogsOf(s.link_id)} = ViewerIps
    /\ s.unique_viewers = 3

\* C13: GET /links/:linkId/stats for a stored link answers 200; without log
\* rows viewCount is 0 and lastOpened is null, with log rows lastOpened is
\* the greatest timestamp among the link's rows.
C13_StatsOfZeroLogLinks ==
  (resp.op = "stats" /\ Target # {}) =>
    /\ resp.status = 200
    /\ LogsOf(resp.arg) = {} =>
         resp.body.viewCount = 0 /\ resp.body.lastOpened = NoTime
    /\ LogsOf(resp.arg) # {} =>
         /\ \E g \in LogsOf(resp.arg) : g.timestamp = resp.body.lastOpened
         /\ \A g \in LogsOf(resp.arg) : g.timestamp <= resp.body.lastOpened

C13_Witness ==
  /\ resp.op = "stats" /\ resp.status = 200
  /\ Target # {} /\ LogsOf(resp.arg) = {}
  /\ resp.body.viewCount = 0

\* C14: two links of the same document have different linkIds; GET answers
\* 410 for one of them only when its own expiresAt has passed and 200 only
\* when its own expiresAt has not; and a log row written for one link
\* leaves the share_link_stats row of every other link as it was.
C14_PerLinkIndependence ==
  [][/\ \A r1 \in share_links', r2 \in share_links' :
          (r1.document_id = r2.document_id /\ r1 # r2) =>
            /\ r1.link_id # r2.link_id
            /\ (ResolveResponse(r1.link_id, now).status = 410)' =>
                 (r1.expires_at # NoTime /\ r1.expires_at < now')
            /\ (ResolveResponse(r1.link_id, now).status = 200)' =>
                 (r1.expires_at = NoTime \/ now' <= r1.expires_at)
     /\ \A v \in Viewers :
          (Inserting(v) /\ share_link_logs' # share_link_logs) =>
            \A s \in share_link_stats :
              s.link_id # logReq[v].linkId => s \in share_link_stats']_vars

\* two links of one document, one expired with a logged view, the other
\* active without any
C14_Witness ==
  \E s1 \in share_link_stats, s2 \in share_link_stats :
    /\ s1.document_id = s2.document_id /\ s1.link_id # s2.link_id
    /\ s1.view_count >= 1 /\ s2.view_count = 0 /\ s2.last_opened = NoTime
    /\ ResolveResponse(s1.link_id, now).status = 410
    /\ ResolveResponse(s2.link_id, now).status = 200

\* C15: every log row references a stored link and every link a stored
\* document; once a document is deleted none of its links and none of their
\* log rows is left, and GET, a log request and stats for such a linkId find
\* nothing and answer 404.
C15_CascadeAndIntegrity ==
  /\ \A g \in share_link_logs : LinksById(g.link_id) # {}
  /\ \A r \in share_links : DocExists(r.document_id)
  /\ \A l \in revoked :
       /\ LinksById(l) = {} /\ LogsOf(l) = {}
       /\ ResolveResponse(l, now).status = 404
       /\ LinkCheckFails(l)
       /\ \A s \in share_link_stats : s.link_id # l
  /\ (resp.op \in {"get", "stats"} /\ resp.arg \in revoked)
       => resp.status = 404
  /\ (resp.op = "log" /\ resp.arg \in revoked) => resp.status \in {404, 500}

\* the document of a link with a logged view was deleted, and a log request
\* for that linkId was answered 404
C15_Witness ==
  /\ resp.op = "log" /\ resp.status = 404 /\ resp.arg \in revoked
  /\ logged[resp.arg] >= 1
  /\ documents = {}

\* the users rows deleted by the step from this state to the next
Deleted == {u.id : u \in users} \ {u.id : u \in users'}

\* C16 as stated: when the users row of a link's issuer is deleted, the
\* link stays, with createdBy null and its linkId, documentId and expiresAt
\* as they were, and GET answers for it as before; so also when the issuer
\* owns the referenced document.
C16_SurvivesEveryIssuer ==
  [][\A r \in share_links :
       r.created_by \in Deleted =>
         /\ [r EXCEPT !.created_by = Null] \in share_links'
         /\ ResolveResponse(r.link_id, now)' = ResolveResponse(r.link_id, now)]_vars

\* C16 amended: when the users row of a link's issuer is deleted and the
\* issuer does not own the referenced document, the link stays, with
\* createdBy null and its linkId, documentId and expiresAt as they were,
\* and GET answers for it as before; when the issuer owns the document, the
\* document, the link and its logs are removed with the user.
C16_SurvivesNonOwnerIssuer ==
  [][\A r \in share_links :
       r.created_by \in Deleted =>
         IF \E d \in documents : d.id = r.document_id /\ d.owner_id = r.created_by
           THEN /\ \A x \in share_links' : x.link_id # r.link_id
                /\ \A g \in share_link_logs' : g.link_id # r.link_id
                /\ ~DocExists(r.document_id)'
           ELSE /\ [r EXCEPT !.created_by = Null] \in share_links'
                /\ ResolveResponse(r.link_id, now)' =
                     ResolveResponse(r.link_id, now)]_vars

\* a link whose issuer was deleted is stored without issuer and resolves
C16_Witness ==
  \E r \in share_links :
    /\ r.created_by = Null
    /\ ~UserExists("u2")
    /\ resp.op = "get" /\ resp.arg = r.link_id /\ resp.status = 200

\* C17: GET /links/:linkId and GET /links/:linkId/stats leave the link rows
\* and the log rows as they are; POST /links keeps every link row, adds at
\* most one and leaves the log rows; POST /links/:linkId/log keeps every
\* log row, adds at most one and leaves the link rows.  (A step that writes
\* a response with op "create" is a step of POST /links; one that writes op
\* "log" or moves a log request is a step of POST /links/:linkId/log.)
C17_FrameOfLinkOperations ==
  [][/\ \A linkId \in LinkIdInputs :
          (getDocumentByLink(linkId) \/ getLinkStats(linkId)) =>
            UNCHANGED <<share_links, share_link_logs>>
     /\ (resp = NoResp /\ resp'.op = "create") =>
          /\ share_link_logs' = share_link_logs
          /\ share_links \subseteq share_links'
          /\ Cardinality(share_links' \ share_links) =
               IF resp'.status = 201 THEN 1 ELSE 0
     /\ (resp = NoResp /\ resp'.op = "log") =>
          /\ share_links' = share_links
          /\ share_link_logs \subseteq share_link_logs'
          /\ Cardinality(share_link_logs' \ share_link_logs) =
               IF resp'.status = 201 THEN 1 ELSE 0
     /\ logReq' # logReq =>
          /\ share_links' = share_links
          /\ share_link_logs \subseteq share_link_logs']_vars

\* a link was resolved with 200 and no view of it is recorded
C17_Witness ==
  /\ resp.op = "get" /\ resp.status = 200
  /\ LogsOf(resp.arg) = {} /\ logged[resp.arg] = 0

\* C18: a share_links row appears only in a step of POST /links that
\* answers 201, and its created_by is the caller's id, which is also the
\* createdBy returned; a POST /links without authenticated caller answers
\* 401, one of an authenticated caller without documentId answers 400, and
\* neither changes the store; no 201 is given without both.
C18_CreateGate ==
  [][/\ ~(share_links' \subseteq share_links) =>
          /\ resp = NoResp /\ resp'.op = "create" /\ resp'.status = 201
          /\ \A r \in share_links' \ share_links :
               /\ r.created_by = resp'.body.createdBy
               /\ r.document_id = resp'.body.documentId
     /\ (resp = NoResp /\ resp'.op = "create") =>
          \A user \in Users \cup {NoUser}, documentId \in DocumentIdInputs,
             expiresAt \in ExpiresInputs, linkId \in LinkIds :
            createShareLink(user, documentId, expiresAt, linkId) =>
              /\ user = NoUser => (resp'.status = 401 /\ UNCHANGED store)
              /\ (user # NoUser /\ documentId = "") =>
                   (resp'.status = 400 /\ UNCHANGED store)
              /\ resp'.status = 201 =>
                   /\ user \in Users /\ documentId # ""
                   /\ resp'.body.createdBy = user]_vars

\* a 201 was given to u2 and the stored row carries u2 as created_by
C18_Witness ==
  /\ resp.op = "create" /\ resp.status = 201
  /\ resp.body.createdBy = "u2"
  /\ \E r \in share_links :
       r.link_id = resp.body.linkId /\ r.created_by = "u2"

\* C19: GET /companies/:id and GET /companies return to a caller only
\* companies whose owner_user_id is the caller's id, and a PATCH or DELETE
\* of /companies/:id leaves every company of another owner in the store as
\* it was.
C19_CompanyOwnershipIsolation ==
  [][/\ \A user \in Users, id \in CompanyIdInputs :
          (getCompanyById(user, id) /\ resp'.status = 200) =>
            /\ resp'.body.data \in companies
            /\ resp'.body.data.owner_user_id = user
     /\ \A user \in Users :
          (getCompanies(user) /\ resp'.status = 200) =>
            \A c \in resp'.body.data :
              c \in companies /\ c.owner_user_id = user
     /\ \A user \in Users \cup {NoUser}, id \in CompanyIdInputs,
           name \in NameInputs, logo_url \in LogoInputs :
          (updateCompany(user, id, name, logo_url) \/ deleteCompany(user, id)) =>
            \A c \in companies : c.owner_user_id # user => c \in companies']_vars

\* a DELETE for a company answered 200 and the company, of another owner,
\* is still stored
C19_Witness ==
  /\ resp.op = "deleteCompany" /\ resp.status = 200
  /\ \E c \in companies : c.id = resp.arg

\* two responses with the same status and body
Same(r1, r2) == r1.status = r2.status /\ r1.body = r2.body

\* C20: whenever GET, PATCH or DELETE /companies/:id, PATCH
\* /admin/users/:userId/role or DELETE /admin/users/:userId has answered a
\* caller about a target that exists and belongs to another owner or
\* company, the same caller would get the same status and body for a
\* target that does not exist.
C20_NoExistenceLeak ==
  /\ \A user \in Users, id \in CompanyIdInputs :
       ((\E c \in companies : c.id = resp.arg /\ c.owner_user_id # user)
        /\ (\A c \in companies : c.id # id)) =>
         /\ resp = GetCompanyResponse(user, resp.arg)
              => Same(resp, GetCompanyResponse(user, id))
         /\ resp = DeleteCompanyResponse(user, resp.arg)
              => Same(resp, DeleteCompanyResponse(user, id))
         /\ \A name \in NameInputs, logo_url \in LogoInputs :
              resp = UpdateCompanyResponse(user, resp.arg, name, logo_url)
                => Same(resp, UpdateCompanyResponse(user, id, name, logo_url))
  /\ \A user \in UserIds, userId \in UserIdInputs :
       ((\E u \in users, a \in users :
            u.id = resp.arg /\ a.id = user /\ u.company_id # a.company_id)
        /\ ~UserExists(userId)) =>
         /\ resp = DeleteUserResponse(user, resp.arg)
              => Same(resp, DeleteUserResponse(user, userId))
         /\ \A role \in RoleInputs :
              resp = UpdateUserRoleResponse(user, resp.arg, role)
                => Same(resp, UpdateUserRoleResponse(user, userId, role))

\* the caller passes authenticateUser and requireAdmin
IsAdmin(user) == Authenticated(user) /\ UserExists(user)
                 /\ UserRow(user).role = "admin"

\* userId names a users row of a company other than the caller's
OtherCompany(user, userId) ==
  UserExists(userId) /\ UserRow(userId).company_id # UserRow(user).company_id

AdminRequest(user) ==
  \/ getCompanyUsers(user)
  \/ \E email \in EmailInputs, password \in PasswordInputs,
        role \in CreateRoleInputs : createUser(user, email, password, role)
  \/ \E userId \in UserIdInputs, role \in RoleInputs :
       updateUserRole(user, userId, role)
  \/ \E userId \in UserIdInputs : deleteUser(user, userId)

\* C22: the admin role is read from the users table at request time.  Every
\* /admin request of a caller with a valid token whose stored role is not
\* 'admin' at that time, however the caller came to that role, answers 403
\* and changes no users row and no account
C22_RoleCheckedAtRequestTime ==
  [][\A user \in UserIds :
       Authenticated(user) /\ ~IsAdmin(user) /\ AdminRequest(user) =>
         /\ resp'.status = 403
         /\ users' = users /\ authUsers' = authUsers
    ]_vars

\* u1, admin at the start, has been demoted, u3 is no admin either and u2
\* still is one: the /admin request refused for the stored role came from
\* u1 or u3
C22_Witness ==
  /\ UserRow("u1").role = "user" /\ "u1" \in authUsers
  /\ UserRow("u3").role = "user" /\ UserRow("u2").role = "admin"
  /\ resp.op = "getCompanyUsers" /\ resp.status = 403
  /\ resp.body.error = "Access denied. Admin privileges required."

C24_NoSelfDeletion ==
  [][\A user \in UserIds :
       /\ IsAdmin(user) /\ deleteUser(user, user) =>
            /\ resp'.status = 400
            /\ users' = users /\ authUsers' = authUsers
       /\ \A userId \in UserIdInputs :
            deleteUser(user, userId) =>
              /\ user \in authUsers => user \in authUsers'
              /\ \A u \in users : u.id = user => u \in users'
    ]_vars

\* an admin's attempt on their own account was refused
C24_Witness ==
  /\ resp.op = "deleteUser" /\ resp.status = 400
  /\ resp.body.error = "Cannot delete your own account"
  /\ IsAdmin(resp.arg)

\* C25: internal errors are surfaced generically.  Every 500 response
\* carries a fixed error message and nothing else: no field with the text
\* of the store's or the identity provider's error
C25_GenericServerErrors ==
  resp.status = 500 => DOMAIN resp.body = {"error"}

C27_CheckThenInsertRace ==
  [][/\ \A v \in Viewers :
          logLinkViewInsert(v) /\ LinksById(logReq[v].linkId) = {} =>
            /\ resp'.status = 500
            /\ share_link_logs' = share_link_logs
      /\ \A g \in share_link_logs' :
           \E r \in share_links' : r.link_id = g.link_id
    ]_vars

\* a log request whose link was deleted with its document after its check
\* has been answered 500 for the foreign key, row-level security being off
C27_Witness ==
  /\ resp.op = "log" /\ resp.status = 500
  /\ resp.arg \in revoked /\ LinksById(resp.arg) = {}
  /\ ~rlsApplied

\* the roles the users table is declared to hold
DeclaredRoles == {"admin", "user", "viewer"}

\* C28: the role domain is enforced.  Every users row has a role of the
\* declared set, and a POST /admin/users or PATCH /admin/users/:userId/role
\* of an admin that carries any other role is answered 400 and stores
\* nothing
C28_RoleDomain ==
  [][/\ \A u \in users' : u.role \in DeclaredRoles
      /\ \A user \in UserIds :
           IsAdmin(user) =>
             /\ \A userId \in UserIdInputs, role \in RoleInputs \ DeclaredRoles :
                  updateUserRole(user, userId, role) =>
                    resp'.status = 400 /\ users' = users
             /\ \A role \in CreateRoleInputs \ (DeclaredRoles \cup {Undefined}) :
                  createUser(user, "new@acme", "pw", role) =>
                    /\ resp'.status = 400
                    /\ users' = users /\ authUsers' = authUsers
    ]_vars

\* C29: stored company names are well-formed.  Every companies row has a
\* name that is not empty, not made of whitespace alone and without leading
\* or trailing whitespace
C29_CompanyNameWellFormed ==
  \A c \in companies : c.name # "" /\ Trim(c.name) = c.name

\* C30: deletion of a user is complete.  Once DELETE /admin/users/:userId
\* has answered 200 for a user, that user has no users row, no admin's GET
\* /admin/users lists the user, and a repeated DELETE by an admin answers
\* 404
C30_DeletionComplete ==
  resp.op = "deleteUser" /\ resp.status = 200 =>
    /\ ~UserExists(resp.arg)
    /\ \A user \in UserIds \ {resp.arg} :
         IsAdmin(user) =>
           /\ \A x \in GetCompanyUsersResponse(user).body.users :
                x.id # resp.arg
           /\ DeleteUserResponse(user, resp.arg).status = 404
====
